---- MODULE Spec2Model ----
(***************************************************************************)
(* Carry_Crash.py: the AUDJPY carry-crash pipeline, statement by statement.*)
(*                                                                         *)
(* A DataFrame is a sequence of rows (records); the index is the field     *)
(* Date.  A float is an exact rational <<n, d>> with d > 0, and the IEEE   *)
(* specials are the fractions with d = 0: NaN = 0/0, +inf = 1/0,           *)
(* -inf = -1/0.  Rounding is not modelled.                                 *)
(*                                                                         *)
(* Three specifications run the same statements:                           *)
(*   Spec        the whole script, from the three files read at lines      *)
(*               49-51 (short files, so the aligned table is empty);       *)
(*   SpecSignal  lines 140-176, from any merged weekly table that line 137 *)
(*               can leave in audjpy_df;                                   *)
(*   SpecEvent   lines 184-219, from any aligned table that line 180 can   *)
(*               leave in aligned.                                         *)
(***************************************************************************)
EXTENDS Integers, Sequences, FiniteSets, TLC

VARIABLES pc, spot_df, fwdpts_df, rr_df, indexed,
          audjpy_spot_w, audjpy_pts_w, audjpy_rr_w, audjpy_df,
          aligned, q, warning_mask, out

vars == <<pc, spot_df, fwdpts_df, rr_df, indexed,
          audjpy_spot_w, audjpy_pts_w, audjpy_rr_w, audjpy_df,
          aligned, q, warning_mask, out>>

(***************************************************************************)
(* Program constants                                                       *)
(***************************************************************************)
\* HORIZON_WEEKS = 4
HORIZON_WEEKS == 4

\* MIN_EXPANDING_WEEKS = 52 in the script; the model runs it scaled down, so
\* that tables of MaxWeeks rows reach the weeks after the threshold.
MIN_EXPANDING_WEEKS == 2

\* WARNING_QUANTILE = 0.10
WARNING_QUANTILE == <<1, 10>>

\* WEEKLY_FREQ = "W-FRI": a week is the 7 days ending on a Friday.  Day 1 is
\* a Saturday, so day 7w is the Friday that labels week w.
DaysPerWeek == 7

\* pd.to_datetime(..., errors="coerce") gives NaT for what it cannot parse.
NaT == 0

\* A raw date cell that is no date ("n/a", an empty cell).
BadDate == -1

(***************************************************************************)
(* Bounds of the model                                                     *)
(***************************************************************************)
\* Spec: weeks covered by the three files, and rows of the one file that is
\* not a regular weekly export.
NumWeeks == 3
MaxRows == 2
\* SpecSignal: rows of the merged weekly table.
MaxWeeks == 6
\* SpecEvent: rows of the aligned table.
MaxN == 11

(***************************************************************************)
(* Floats                                                                  *)
(***************************************************************************)
NaN == <<0, 0>>
PosInf == <<1, 0>>
NegInf == <<-1, 0>>

Abs(n) == IF n < 0 THEN -n ELSE n
Sgn(n) == IF n < 0 THEN -1 ELSE IF n > 0 THEN 1 ELSE 0

RECURSIVE GCD(_, _)
GCD(a, b) == IF b = 0 THEN a ELSE GCD(b, a % b)

\* The float n/d, in lowest terms; x/0 is NaN or an infinity (numpy raises
\* nothing on a division by zero inside pandas arithmetic).
Frac(n, d) ==
    IF d = 0
    THEN IF n = 0 THEN NaN ELSE IF n > 0 THEN PosInf ELSE NegInf
    ELSE LET g == GCD(Abs(n), Abs(d))
         IN  <<(Sgn(d) * n) \div g, Abs(d) \div g>>

Float(n) == <<n, 1>>
IsNaN(x) == x = NaN
IsInf(x) == x = PosInf \/ x = NegInf
NotNa(x) == ~IsNaN(x)

FNeg(x) == <<-x[1], x[2]>>
FAdd(x, y) ==
    IF IsNaN(x) \/ IsNaN(y) THEN NaN
    ELSE IF IsInf(x) THEN (IF IsInf(y) /\ y # x THEN NaN ELSE x)
    ELSE IF IsInf(y) THEN y
    ELSE Frac(x[1] * y[2] + y[1] * x[2], x[2] * y[2])
FSub(x, y) == FAdd(x, FNeg(y))
FMul(x, y) ==
    IF IsNaN(x) \/ IsNaN(y) THEN NaN ELSE Frac(x[1] * y[1], x[2] * y[2])
FInv(y) ==
    IF IsNaN(y) THEN NaN
    ELSE IF IsInf(y) THEN Float(0)
    ELSE IF y[1] = 0 THEN PosInf
    ELSE Frac(Sgn(y[1]) * y[2], Abs(y[1]))
FDiv(x, y) == FMul(x, FInv(y))
\* x <= y on floats: False when either is NaN.
FLeq(x, y) ==
    /\ NotNa(x) /\ NotNa(y)
    /\ IF x[2] = 0 /\ y[2] = 0 THEN x[1] <= y[1]
       ELSE IF x[2] = 0 THEN x[1] < 0
       ELSE IF y[2] = 0 THEN y[1] > 0
       ELSE x[1] * y[2] <= y[1] * x[2]
FLess(x, y) == FLeq(x, y) /\ x # y

(***************************************************************************)
(* DataFrame operations                                                    *)
(***************************************************************************)
SetMax(S) == CHOOSE m \in S : \A x \in S : x <= m
SetMin(S) == CHOOSE m \in S : \A x \in S : m <= x

\* df["name"] = col
AddCol(df, name, col) == [i \in DOMAIN df |-> (name :> col[i]) @@ df[i]]
Col(df, name) == [i \in DOMAIN df |-> df[i][name]]
Dates(df) == {df[i].Date : i \in DOMAIN df}
RowAt(df, d) == df[CHOOSE i \in DOMAIN df : df[i].Date = d]

RECURSIVE SelectRows(_, _)
\* the rows whose position is in keep, in order
SelectRows(df, keep) ==
    IF df = <<>> THEN <<>>
    ELSE LET n == Len(df)
             front == SelectRows(SubSeq(df, 1, n - 1), keep)
         IN  IF n \in keep THEN Append(front, df[n]) ELSE front

\* pd.to_datetime(col, errors="coerce"): a day number parses, anything else
\* is NaT.
ToDatetime(s) == IF s >= 1 THEN s ELSE NaT

\* .dropna(subset=cols) on float columns
DropNa(df, cols) ==
    SelectRows(df, {i \in DOMAIN df : \A c \in cols : NotNa(df[i][c])})
\* .dropna on the Date column
DropNaT(df) == SelectRows(df, {i \in DOMAIN df : df[i].Date # NaT})

\* sort_values("Date"): ascending, NaT last.  The tables of the model are
\* shorter than 16 rows, where numpy's default sort is an insertion sort:
\* rows of equal Date keep their order.
DateLeq(a, b) == b = NaT \/ (a # NaT /\ a <= b)
RECURSIVE InsertByDate(_, _)
InsertByDate(s, r) ==
    IF s = <<>> THEN <<r>>
    ELSE IF DateLeq(Head(s).Date, r.Date)
         THEN <<Head(s)>> \o InsertByDate(Tail(s), r)
         ELSE <<r>> \o s
RECURSIVE SortValues(_)
SortValues(df) ==
    IF df = <<>> THEN <<>>
    ELSE InsertByDate(SortValues(SubSeq(df, 1, Len(df) - 1)), df[Len(df)])

RECURSIVE DropDuplicates(_)
\* drop_duplicates("Date"): the first row of each Date is kept (NaT too)
DropDuplicates(df) ==
    IF df = <<>> THEN <<>>
    ELSE LET n == Len(df)
             front == DropDuplicates(SubSeq(df, 1, n - 1))
         IN  IF df[n].Date \in Dates(front) THEN front
             ELSE Append(front, df[n])

\* The frame a chain hands to .resample: sorted, deduplicated, indexed by Date.
SetIndex(df) == DropDuplicates(SortValues(df))

WeekOf(d) == (d - 1) \div DaysPerWeek + 1

\* .resample("W-FRI").last(): one row per week from the first dated row's
\* week to the last one's; a week's value is its last non-NaN value, NaN when
\* it has none.  Rows indexed NaT fall in no week.
LastValid(df, col, w) ==
    LET idx == {i \in DOMAIN df : /\ df[i].Date # NaT
                                  /\ WeekOf(df[i].Date) = w
                                  /\ NotNa(df[i][col])}
    IN  IF idx = {} THEN NaN ELSE df[SetMax(idx)][col]
ResampleLast(df, col) ==
    LET weeks == {WeekOf(d) : d \in Dates(df) \ {NaT}}
    IN  IF weeks = {} THEN <<>>
        ELSE LET first == SetMin(weeks)
                 last == SetMax(weeks)
             IN  [k \in 1..(last - first + 1) |->
                    (col :> LastValid(df, col, first + k - 1))
                        @@ [Date |-> first + k - 1]]

\* left.join(right, how="inner"): the weeks of both, with the columns of both
JoinInner(left, right) ==
    LET both == SelectRows(left,
                    {i \in DOMAIN left : left[i].Date \in Dates(right)})
    IN  [i \in DOMAIN both |-> both[i] @@ RowAt(right, both[i].Date)]

\* ZeroToNaN with the replacement left out
ZeroKept(x) == x

\* .replace(0.0, np.nan)
ZeroToNaN(x) == IF x = Float(0) THEN NaN ELSE x

(***************************************************************************)
(* 1-2) the spot chain, lines 49-80                                        *)
(***************************************************************************)
\* lines 55-70: Date from AUDUSD_Date, rows with a missing Date or price
\* dropped, AUDJPY_spot = AUDUSD * USDJPY
CleanSpotFrame(df) ==
    LET parsed == [i \in DOMAIN df |->
                     [Date |-> ToDatetime(df[i].AUDUSD_Date),
                      AUDUSD |-> df[i].AUDUSD, USDJPY |-> df[i].USDJPY]]
        kept == DropNa(DropNaT(parsed), {"AUDUSD", "USDJPY"})
    IN  AddCol(kept, "AUDJPY_spot",
               [i \in DOMAIN kept |-> FMul(kept[i].AUDUSD, kept[i].USDJPY)])

BuildSpot ==
    /\ pc = "build_spot"
    /\ spot_df' = CleanSpotFrame(spot_df)
    /\ pc' = "resample_spot"
    /\ UNCHANGED <<fwdpts_df, rr_df, indexed, audjpy_spot_w, audjpy_pts_w,
                   audjpy_rr_w, audjpy_df, aligned, q, warning_mask, out>>

\* lines 73-80
SpotIndexed(df) ==
    SetIndex([i \in DOMAIN df |->
                [Date |-> df[i].Date, AUDJPY_spot |-> df[i].AUDJPY_spot]])

ResampleSpot ==
    /\ pc = "resample_spot"
    /\ indexed' = [indexed EXCEPT !.spot = SpotIndexed(spot_df)]
    /\ audjpy_spot_w' = ResampleLast(SpotIndexed(spot_df), "AUDJPY_spot")
    /\ pc' = "parse_fwdpts"
    /\ UNCHANGED <<spot_df, fwdpts_df, rr_df, audjpy_pts_w, audjpy_rr_w,
                   audjpy_df, aligned, q, warning_mask, out>>

(***************************************************************************)
(* 3) forward points, lines 84-113                                         *)
(***************************************************************************)
\* lines 84-88: the Date column is parsed; no row is dropped
ParseDates(df, col) ==
    [i \in DOMAIN df |-> (col :> df[i][col]) @@ [Date |-> ToDatetime(df[i].Date)]]

ParseFwdPts ==
    /\ pc = "parse_fwdpts"
    /\ fwdpts_df' = ParseDates(fwdpts_df, "AUDJPY_1M_points_pips")
    /\ pc' = "resample_fwdpts"
    /\ UNCHANGED <<spot_df, rr_df, indexed, audjpy_spot_w, audjpy_pts_w,
                   audjpy_rr_w, audjpy_df, aligned, q, warning_mask, out>>

\* lines 90-97: sorted, deduplicated and indexed as it is, NaT rows included
PtsIndexed(df) == SetIndex(df)

\* An index that holds rows but no date at all gives the resampler no range
\* to build the weekly grid from: the run ends there, or the table is empty.
NoDateAtAll(df) == df # <<>> /\ Dates(df) = {NaT}

ResampleFwdPts ==
    /\ pc = "resample_fwdpts"
    /\ indexed' = [indexed EXCEPT !.pts = PtsIndexed(fwdpts_df)]
    /\ \/ /\ audjpy_pts_w' =
                ResampleLast(PtsIndexed(fwdpts_df), "AUDJPY_1M_points_pips")
          /\ pc' = "zero_points"
       \/ /\ NoDateAtAll(PtsIndexed(fwdpts_df))
          /\ audjpy_pts_w' = audjpy_pts_w
          /\ pc' = "raised_resample_fwdpts"
    /\ UNCHANGED <<spot_df, fwdpts_df, rr_df, audjpy_spot_w, audjpy_rr_w,
                   audjpy_df, aligned, q, warning_mask, out>>

\* lines 100-102: zeros of the WEEKLY series become NaN
ZeroPoints(w) ==
    [i \in DOMAIN w |->
        [w[i] EXCEPT !.AUDJPY_1M_points_pips = ZeroToNaN(@)]]

ZeroPointsToNaN ==
    /\ pc = "zero_points"
    /\ audjpy_pts_w' = ZeroPoints(audjpy_pts_w)
    /\ pc' = "join_spot_points"
    /\ UNCHANGED <<spot_df, fwdpts_df, rr_df, indexed, audjpy_spot_w,
                   audjpy_rr_w, audjpy_df, aligned, q, warning_mask, out>>

\* lines 105-113: inner join, pips / 100, forward = spot + points
WithForward(df) ==
    LET price == [i \in DOMAIN df |->
                    FDiv(df[i].AUDJPY_1M_points_pips, Float(100))]
        d1 == AddCol(df, "AUDJPY_1M_points_price", price)
    IN  AddCol(d1, "AUDJPY_1M_forward",
               [i \in DOMAIN d1 |->
                    FAdd(d1[i].AUDJPY_spot, d1[i].AUDJPY_1M_points_price)])

JoinSpotPoints ==
    /\ pc = "join_spot_points"
    /\ audjpy_df' = WithForward(JoinInner(audjpy_spot_w, audjpy_pts_w))
    /\ pc' = "parse_rr"
    /\ UNCHANGED <<spot_df, fwdpts_df, rr_df, indexed, audjpy_spot_w,
                   audjpy_pts_w, audjpy_rr_w, aligned, q, warning_mask, out>>

(***************************************************************************)
(* 4) risk reversal and the merged table, lines 116-137                    *)
(***************************************************************************)
ParseRR ==
    /\ pc = "parse_rr"
    /\ rr_df' = ParseDates(rr_df, "AUDJPY_RR25D")
    /\ pc' = "resample_rr"
    /\ UNCHANGED <<spot_df, fwdpts_df, indexed, audjpy_spot_w, audjpy_pts_w,
                   audjpy_rr_w, audjpy_df, aligned, q, warning_mask, out>>

\* lines 122-130: .dropna() first, on Date and value
RRIndexed(df) == SetIndex(DropNa(DropNaT(df), {"AUDJPY_RR25D"}))

ResampleRR ==
    /\ pc = "resample_rr"
    /\ indexed' = [indexed EXCEPT !.rr = RRIndexed(rr_df)]
    /\ audjpy_rr_w' = ResampleLast(RRIndexed(rr_df), "AUDJPY_RR25D")
    /\ pc' = "merge"
    /\ UNCHANGED <<spot_df, fwdpts_df, rr_df, audjpy_spot_w, audjpy_pts_w,
                   audjpy_df, aligned, q, warning_mask, out>>

\* lines 133-137
MergeFrames(df, rr_w) ==
    DropNa(JoinInner(df, rr_w),
           {"AUDJPY_spot", "AUDJPY_1M_forward", "AUDJPY_RR25D"})

MergeAll ==
    /\ pc = "merge"
    /\ audjpy_df' = MergeFrames(audjpy_df, audjpy_rr_w)
    /\ pc' = "fear"
    /\ UNCHANGED <<spot_df, fwdpts_df, rr_df, indexed, audjpy_spot_w,
                   audjpy_pts_w, audjpy_rr_w, aligned, q, warning_mask, out>>

(***************************************************************************)
(* 4) the fear signal, lines 140-148                                       *)
(***************************************************************************)
\* HasMinPeriods one observation late
HasMinPeriodsLate(nobs, minp) == nobs > minp

\* .expanding(min_periods=m): the statistic is emitted once the window holds
\* at least m observations
HasMinPeriods(nobs, minp) == nobs >= minp

\* One observation enters pandas' expanding window: the count, the sum, and
\* Welford's mean and sum of squared deviations.  A NaN is skipped.
AddObservation(s, v) ==
    LET n == s.nobs + 1
        delta == FSub(v, s.mean_x)
        mean == FAdd(s.mean_x, FDiv(delta, Float(n)))
    IN  IF IsNaN(v) THEN s
        ELSE [nobs |-> n, sum_x |-> FAdd(s.sum_x, v), mean_x |-> mean,
              ssqdm_x |-> FAdd(s.ssqdm_x, FMul(FSub(v, mean), delta))]

EmptyWindow ==
    [nobs |-> 0, sum_x |-> Float(0), mean_x |-> Float(0), ssqdm_x |-> Float(0)]

RECURSIVE ExpandingStates(_)
\* The window's state after each row of xs, first row to last.
ExpandingStates(xs) ==
    IF xs = <<>> THEN <<>>
    ELSE LET front == ExpandingStates(SubSeq(xs, 1, Len(xs) - 1))
             last == IF front = <<>> THEN EmptyWindow ELSE front[Len(front)]
         IN  Append(front, AddObservation(last, xs[Len(xs)]))

\* ExpandingMean looking ahead: the mean of the whole column at every row
FullSampleMean(xs, minp) ==
    LET st == ExpandingStates(xs)
    IN  [i \in DOMAIN xs |->
            IF HasMinPeriods(st[i].nobs, minp)
            THEN FDiv(st[Len(xs)].sum_x, Float(st[Len(xs)].nobs)) ELSE NaN]

\* .expanding(min_periods=minp).mean()
ExpandingMean(xs, minp) ==
    LET st == ExpandingStates(xs)
    IN  [i \in DOMAIN xs |->
            IF HasMinPeriods(st[i].nobs, minp)
            THEN FDiv(st[i].sum_x, Float(st[i].nobs)) ELSE NaN]

\* .expanding(min_periods=minp).std(), ddof = 1.  The column holds the
\* standard deviation; the model keeps its square, the variance, which is
\* rational.
ExpandingStdSq(xs, minp) ==
    LET st == ExpandingStates(xs)
    IN  [i \in DOMAIN xs |->
            IF HasMinPeriods(st[i].nobs, minp) /\ st[i].nobs > 1
            THEN FDiv(st[i].ssqdm_x, Float(st[i].nobs - 1)) ELSE NaN]

\* u * |u|
SignedSq(u) ==
    IF IsNaN(u) \/ IsInf(u) THEN u ELSE <<Sgn(u[1]) * u[1] * u[1], u[2] * u[2]>>

\* ZScore with an undefined quotient filled with zero
ZScoreZeroFilled(x, mean, stdsq) ==
    IF stdsq = Float(0) THEN Float(0)
    ELSE FDiv(SignedSq(FSub(x, mean)), stdsq)

\* (x - mean) / std.  With z the quotient, the model keeps z * |z|, which is
\* rational and which z determines one to one, order included: 0/0 is NaN
\* and u/0 is an infinity of u's sign.
ZScore(x, mean, stdsq) == FDiv(SignedSq(FSub(x, mean)), stdsq)

\* fear_z from fear_level, lines 143-145
FearZ(levels, minp) ==
    LET exp_mean == ExpandingMean(levels, minp)
        exp_std == ExpandingStdSq(levels, minp)
    IN  [i \in DOMAIN levels |-> ZScore(levels[i], exp_mean[i], exp_std[i])]

\* A difference of two z-scores is kept as the pair <<z[t], z[t-1]>>.
DiffNaN == <<NaN, NaN>>
ZSub(a, b) ==
    IF IsNaN(a) \/ IsNaN(b) \/ (IsInf(a) /\ a = b) THEN DiffNaN ELSE <<a, b>>
\* .diff()
Diff(zs) == [i \in DOMAIN zs |-> IF i = 1 THEN DiffNaN ELSE ZSub(zs[i], zs[i - 1])]

FearColumns(df) ==
    LET d1 == AddCol(df, "fear_level",
                     [i \in DOMAIN df |-> FNeg(df[i].AUDJPY_RR25D)])
        d2 == AddCol(d1, "fear_z",
                     FearZ(Col(d1, "fear_level"), MIN_EXPANDING_WEEKS))
    IN  AddCol(d2, "dfear", Diff(Col(d2, "fear_z")))

FearSignal ==
    /\ pc = "fear"
    /\ audjpy_df' = FearColumns(audjpy_df)
    /\ pc' = "returns"
    /\ UNCHANGED <<spot_df, fwdpts_df, rr_df, indexed, audjpy_spot_w,
                   audjpy_pts_w, audjpy_rr_w, aligned, q, warning_mask, out>>

(***************************************************************************)
(* 5) weekly returns, lines 152-165                                        *)
(***************************************************************************)
\* .shift(periods): row i takes the value of row i - periods
Shift(col, periods) ==
    [i \in DOMAIN col |->
        IF i - periods \in DOMAIN col THEN col[i - periods] ELSE NaN]

\* PctChange without the division by the previous value
PlainChange(col) ==
    [i \in DOMAIN col |->
        IF i = 1 THEN NaN ELSE FSub(col[i], col[i - 1])]

\* .pct_change(): each row against the row before it in the same table
PctChange(col) ==
    LET prev == Shift(col, 1)
    IN  [i \in DOMAIN col |-> FSub(FDiv(col[i], prev[i]), Float(1))]

ReturnColumns(df) ==
    LET d1 == AddCol(df, "ret_spot_w", PctChange(Col(df, "AUDJPY_spot")))
        d2 == AddCol(d1, "carry_yield_annual",
                [i \in DOMAIN d1 |->
                    FMul(FDiv(FSub(d1[i].AUDJPY_1M_forward, d1[i].AUDJPY_spot),
                              d1[i].AUDJPY_spot),
                         Float(12))])
        d3 == AddCol(d2, "ret_carry_w",
                [i \in DOMAIN d2 |-> FDiv(d2[i].carry_yield_annual, Float(52))])
    IN  AddCol(d3, "ret_total_w",
                [i \in DOMAIN d3 |-> FAdd(d3[i].ret_spot_w, d3[i].ret_carry_w)])

WeeklyReturns ==
    /\ pc = "returns"
    /\ audjpy_df' = ReturnColumns(audjpy_df)
    /\ pc' = "target"
    /\ UNCHANGED <<spot_df, fwdpts_df, rr_df, indexed, audjpy_spot_w,
                   audjpy_pts_w, audjpy_rr_w, aligned, q, warning_mask, out>>

(***************************************************************************)
(* 6) the forward target and the aligned table, lines 172-180              *)
(***************************************************************************)
RECURSIVE FSum(_)
FSum(xs) ==
    IF xs = <<>> THEN Float(0)
    ELSE FAdd(FSum(SubSeq(xs, 1, Len(xs) - 1)), xs[Len(xs)])

\* .rolling(h).sum(): the sum of the h rows ending at row i; NaN while the
\* window holds fewer than h observations (min_periods = h)
RollingSum(col, h) ==
    [i \in DOMAIN col |->
        LET lo == IF i - h + 1 < 1 THEN 1 ELSE i - h + 1
            obs == {j \in lo..i : NotNa(col[j])}
        IN  IF Cardinality(obs) >= h THEN FSum(SubSeq(col, lo, i)) ELSE NaN]

\* ForwardTargetCol with the shift left out
TrailingSumOnly(ret, h) == RollingSum(ret, h)

\* line 173: .rolling(h).sum().shift(-h+1)
ForwardTargetCol(ret, h) == Shift(RollingSum(ret, h), -h + 1)

ForwardTarget ==
    /\ pc = "target"
    /\ audjpy_df' = AddCol(audjpy_df, "ret_next_h",
                        ForwardTargetCol(Col(audjpy_df, "ret_total_w"),
                                         HORIZON_WEEKS))
    /\ pc' = "align"
    /\ UNCHANGED <<spot_df, fwdpts_df, rr_df, indexed, audjpy_spot_w,
                   audjpy_pts_w, audjpy_rr_w, aligned, q, warning_mask, out>>

\* lines 176-180: the four columns, rows with any NaN dropped, ret_total_w
\* renamed ret_w
AlignedRows(df) ==
    LET keep == {i \in DOMAIN df : /\ NotNa(df[i].ret_total_w)
                                   /\ NotNa(df[i].fear_z)
                                   /\ df[i].dfear # DiffNaN
                                   /\ NotNa(df[i].ret_next_h)}
        rows == SelectRows(df, keep)
    IN  [i \in DOMAIN rows |->
            [Date |-> rows[i].Date, ret_w |-> rows[i].ret_total_w,
             fear_z |-> rows[i].fear_z, dfear |-> rows[i].dfear,
             ret_next_h |-> rows[i].ret_next_h]]

Align ==
    /\ pc = "align"
    /\ aligned' = AlignedRows(audjpy_df)
    /\ pc' = "event_study"
    /\ UNCHANGED <<spot_df, fwdpts_df, rr_df, indexed, audjpy_spot_w,
                   audjpy_pts_w, audjpy_rr_w, audjpy_df, q, warning_mask, out>>

(***************************************************************************)
(* 7) the event study, lines 184-194                                       *)
(***************************************************************************)
RECURSIVE InsertFloat(_, _)
InsertFloat(s, x) ==
    IF s = <<>> THEN <<x>>
    ELSE IF FLeq(Head(s), x) THEN <<Head(s)>> \o InsertFloat(Tail(s), x)
         ELSE <<x>> \o s
RECURSIVE SortFloats(_)
SortFloats(xs) ==
    IF xs = <<>> THEN <<>>
    ELSE InsertFloat(SortFloats(SubSeq(xs, 1, Len(xs) - 1)), xs[Len(xs)])

\* Series.quantile(p), linear interpolation: NaN on an empty series, else
\* between the order statistics around position (N - 1) * p
Quantile(xs, p) ==
    IF xs = <<>> THEN NaN
    ELSE LET srt == SortFloats(xs)
             num == (Len(xs) - 1) * p[1]
             lo == num \div p[2]
             frac == Frac(num % p[2], p[2])
             hi == IF num % p[2] = 0 THEN lo ELSE lo + 1
         IN  FAdd(srt[lo + 1], FMul(FSub(srt[hi + 1], srt[lo + 1]), frac))

\* WarningMask exclusive at the quantile value
StrictWarningMask(al, qv) == [i \in DOMAIN al |-> FLess(al[i].dfear, qv)]

\* aligned["dfear"] <= q
WarningMask(al, qv) == [i \in DOMAIN al |-> FLeq(al[i].dfear, qv)]

\* .mean() of the selected rows' ret_next_h: 0/0 = NaN when none is selected
MeanOf(xs) == FDiv(FSum(xs), Float(Len(xs)))
Selected(al, mask, flag) ==
    Col(SelectRows(al, {i \in DOMAIN al : mask[i] = flag}), "ret_next_h")
IsNegative(x) == IF FLess(x, Float(0)) THEN Float(1) ELSE Float(0)

\* lines 187-194: the three statistics and the four printed lines.  The
\* format specs .4% and .1% take any float, NaN included.
EventStudyLines(al, mask) ==
    LET warn == Selected(al, mask, TRUE)
        calm == Selected(al, mask, FALSE)
        evt_avg_warning == MeanOf(warn)
        evt_hit_warning == MeanOf([i \in DOMAIN warn |-> IsNegative(warn[i])])
        evt_avg_nowarning == MeanOf(calm)
    IN  << [line |-> "Event study (AUDJPY):", value |-> <<>>],
           [line |-> "Avg next-hw return | warning weeks", value |-> evt_avg_warning],
           [line |-> "Hit rate (<0) | warning weeks", value |-> evt_hit_warning],
           [line |-> "Avg next-hw return | non-warning", value |-> evt_avg_nowarning] >>

EventStudy ==
    /\ pc = "event_study"
    /\ q' = Quantile(Col(aligned, "dfear"), WARNING_QUANTILE)
    /\ warning_mask' = WarningMask(aligned, q')
    /\ out' = out \o EventStudyLines(aligned, warning_mask')
    /\ pc' = "regress1"
    /\ UNCHANGED <<spot_df, fwdpts_df, rr_df, indexed, audjpy_spot_w,
                   audjpy_pts_w, audjpy_rr_w, audjpy_df, aligned>>

(***************************************************************************)
(* 8) the regressions, lines 197-219                                       *)
(***************************************************************************)
\* FitFails with a fit that accepts an empty table
FitNeverFails(al) == FALSE

\* OLS(y, X).fit() on no observation raises (statsmodels reduces over the
\* empty exog array); on one row or more it returns a fit.  The estimates are
\* not modelled, only the lines printed.
FitFails(al) == al = <<>>

RegressionLines(name) ==
    << [line |-> name, value |-> <<>>],
       [line |-> "Params", value |-> <<>>],
       [line |-> "Newey-West t-stats", value |-> <<>>] >>

\* lines 197-208
Regress1 ==
    /\ pc = "regress1"
    /\ \/ /\ FitFails(aligned)
          /\ pc' = "raised_regress1"
          /\ out' = out
       \/ /\ ~FitFails(aligned)
          /\ out' = out \o RegressionLines("Regression: ret_next_hw ~ dfear (AUDJPY)")
          /\ pc' = "regress2"
    /\ UNCHANGED <<spot_df, fwdpts_df, rr_df, indexed, audjpy_spot_w,
                   audjpy_pts_w, audjpy_rr_w, audjpy_df, aligned, q,
                   warning_mask>>

\* lines 211-219: reached only after the first fit succeeded, on the same rows
Regress2 ==
    /\ pc = "regress2"
    /\ out' = out \o RegressionLines("Regression: ret_next_hw ~ fear_z + dfear (AUDJPY)")
    /\ pc' = "done"
    /\ UNCHANGED <<spot_df, fwdpts_df, rr_df, indexed, audjpy_spot_w,
                   audjpy_pts_w, audjpy_rr_w, audjpy_df, aligned, q,
                   warning_mask>>

(***************************************************************************)
(* The inputs                                                              *)
(***************************************************************************)
\* Raw date cells: the Thursday and the Friday of each week, or no date.
RawDates ==
    {DaysPerWeek * w - 1 : w \in 1..NumWeeks}
        \cup {DaysPerWeek * w : w \in 1..NumWeeks} \cup {BadDate}

\* A regular weekly export: one row each Friday.
RegularSpot ==
    [w \in 1..NumWeeks |->
        [AUDUSD_Date |-> DaysPerWeek * w, AUDUSD |-> Float(w),
         USDJPY |-> Float(100)]]
RegularFwdPts ==
    [w \in 1..NumWeeks |->
        [Date |-> DaysPerWeek * w, AUDJPY_1M_points_pips |-> Float(-50)]]
RegularRR ==
    [w \in 1..NumWeeks |->
        [Date |-> DaysPerWeek * w, AUDJPY_RR25D |-> Float(-w)]]

\* The rows a file that is no regular export may hold.
SpotRows ==
    [AUDUSD_Date : RawDates, AUDUSD : {Float(2), NaN}, USDJPY : {Float(100)}]
FwdPtsRows ==
    [Date : RawDates, AUDJPY_1M_points_pips : {Float(0), Float(-50)}]
RRRows == [Date : RawDates, AUDJPY_RR25D : {Float(-1), NaN}]

NoFrame == <<>>
NothingIndexed == [spot |-> <<>>, pts |-> <<>>, rr |-> <<>>]

\* After lines 49-51 (the columns under the names lines 55-60, 84-87 and
\* 116-119 give them): at most one of the three files is not a regular
\* export, and that one is any file of at most MaxRows rows, in any order.
Init ==
    /\ pc = "build_spot"
    /\ \E odd \in {"none", "spot", "fwdpts", "rr"} :
        /\ IF odd = "spot"
           THEN \E n \in 0..MaxRows : spot_df \in [1..n -> SpotRows]
           ELSE spot_df = RegularSpot
        /\ IF odd = "fwdpts"
           THEN \E n \in 0..MaxRows : fwdpts_df \in [1..n -> FwdPtsRows]
           ELSE fwdpts_df = RegularFwdPts
        /\ IF odd = "rr"
           THEN \E n \in 0..MaxRows : rr_df \in [1..n -> RRRows]
           ELSE rr_df = RegularRR
    /\ indexed = NothingIndexed
    /\ audjpy_spot_w = NoFrame /\ audjpy_pts_w = NoFrame
    /\ audjpy_rr_w = NoFrame /\ audjpy_df = NoFrame
    /\ aligned = NoFrame /\ q = NaN /\ warning_mask = <<>> /\ out = <<>>

Next ==
    \/ BuildSpot \/ ResampleSpot
    \/ ParseFwdPts \/ ResampleFwdPts \/ ZeroPointsToNaN \/ JoinSpotPoints
    \/ ParseRR \/ ResampleRR \/ MergeAll
    \/ FearSignal \/ WeeklyReturns \/ ForwardTarget \/ Align
    \/ EventStudy \/ Regress1

Spec == Init /\ [][Next]_vars

\* A merged weekly table of consecutive weeks: spot, points and risk reversal
\* all present, as lines 133-137 leave them.
MergedTable(spots, rrs) ==
    WithForward([i \in DOMAIN spots |->
        [Date |-> i, AUDJPY_spot |-> spots[i],
         AUDJPY_1M_points_pips |-> Float(-50), AUDJPY_RR25D |-> rrs[i]]])

\* Any such table of at most MaxWeeks weeks.
InitSignal ==
    /\ pc = "fear"
    /\ \E n \in 0..MaxWeeks :
        \E spots \in [1..n -> {Float(100), Float(200)}],
           rrs \in [1..n -> {Float(-1), Float(-2)}] :
            audjpy_df = MergedTable(spots, rrs)
    /\ spot_df = NoFrame /\ fwdpts_df = NoFrame /\ rr_df = NoFrame
    /\ indexed = NothingIndexed
    /\ audjpy_spot_w = NoFrame /\ audjpy_pts_w = NoFrame
    /\ audjpy_rr_w = NoFrame
    /\ aligned = NoFrame /\ q = NaN /\ warning_mask = <<>> /\ out = <<>>

NextSignal == FearSignal \/ WeeklyReturns \/ ForwardTarget \/ Align

SpecSignal == InitSignal /\ [][NextSignal]_vars

\* Any aligned table of at most MaxN weeks.  Lines 184-194 read dfear and
\* ret_next_h; dfear is drawn as a float.
AlignedRowKinds ==
    {[dfear |-> Float(0), ret_next_h |-> Frac(-1, 100)],
     [dfear |-> Float(1), ret_next_h |-> Frac(1, 100)]}

AlignedTable(kinds) ==
    [i \in DOMAIN kinds |->
        [Date |-> i, ret_w |-> Float(0), fear_z |-> Float(0),
         dfear |-> kinds[i].dfear, ret_next_h |-> kinds[i].ret_next_h]]

InitEvent ==
    /\ pc = "event_study"
    /\ \E n \in 0..MaxN :
        \E kinds \in [1..n -> AlignedRowKinds] : aligned = AlignedTable(kinds)
    /\ spot_df = NoFrame /\ fwdpts_df = NoFrame /\ rr_df = NoFrame
    /\ indexed = NothingIndexed
    /\ audjpy_spot_w = NoFrame /\ audjpy_pts_w = NoFrame
    /\ audjpy_rr_w = NoFrame /\ audjpy_df = NoFrame
    /\ q = NaN /\ warning_mask = <<>> /\ out = <<>>

NextEvent == EventStudy \/ Regress1 \/ Regress2

SpecEvent == InitEvent /\ [][NextEvent]_vars

(***************************************************************************)
(* Properties                                                              *)
(***************************************************************************)
HasCol(row, name) == name \in DOMAIN row
Rows == DOMAIN audjpy_df
\* the sample mean and variance (ddof = 1) of a series, from their definitions
SampleMean(xs) == FDiv(FSum(xs), Float(Len(xs)))
SampleVar(xs) ==
    LET m == SampleMean(xs)
    IN  FDiv(FSum([i \in DOMAIN xs |->
                     FMul(FSub(xs[i], m), FSub(xs[i], m))]),
             Float(Len(xs) - 1))
\* the fear levels of rows 1..t
LevelsTo(t) == [i \in 1..t |-> audjpy_df[i].fear_level]
\* the standard deviation of the fear levels of rows 1..t is zero: they are
\* all the same
ZeroStdTo(t) == \A i \in 1..t : audjpy_df[i].fear_level = audjpy_df[1].fear_level
AlignedBuilt == pc \in {"event_study", "regress1", "regress2", "done",
                        "raised_regress1"}
Raised == pc \in {"raised_resample_fwdpts", "raised_regress1"}

\* C1 (as claimed): wherever ret_next_h is defined, it is the sum of
\* ret_total_w over the NEXT HORIZON_WEEKS rows, t+1 .. t+H, row t excluded
\* (stated for the rows t that have H rows after them).
C1_TargetSumsNextRows ==
    \A t \in Rows :
        (/\ HasCol(audjpy_df[t], "ret_next_h")
         /\ NotNa(audjpy_df[t].ret_next_h)
         /\ t + HORIZON_WEEKS <= Len(audjpy_df))
        => audjpy_df[t].ret_next_h =
             FSum(SubSeq(Col(audjpy_df, "ret_total_w"),
                         t + 1, t + HORIZON_WEEKS))

\* C2: the last HORIZON_WEEKS - 1 rows of the merged table have a missing
\* ret_next_h, and none of them is a row of the aligned table.
C2_LastRowsHaveNoTarget ==
    \A i \in Rows :
        (HasCol(audjpy_df[i], "ret_next_h")
            /\ i > Len(audjpy_df) - (HORIZON_WEEKS - 1))
        => /\ IsNaN(audjpy_df[i].ret_next_h)
           /\ AlignedBuilt => audjpy_df[i].Date \notin Dates(aligned)

\* C2 happens: the table has H rows or more, the aligned table holds a row,
\* and one of the last H - 1 rows lacks nothing but the target.
C2_Witness ==
    /\ pc = "event_study"
    /\ Len(audjpy_df) >= HORIZON_WEEKS
    /\ aligned # <<>>
    /\ \E i \in Rows :
        /\ i > Len(audjpy_df) - (HORIZON_WEEKS - 1)
        /\ NotNa(audjpy_df[i].ret_total_w) /\ NotNa(audjpy_df[i].fear_z)
        /\ audjpy_df[i].dfear # DiffNaN

C4_ZScoreIsCausalAndExpanding ==
    \A t \in Rows :
        HasCol(audjpy_df[t], "dfear")
        => LET cut_z == FearZ(LevelsTo(t), MIN_EXPANDING_WEEKS)
           IN  /\ audjpy_df[t].fear_z = cut_z[t]
               /\ audjpy_df[t].dfear = Diff(cut_z)[t]
               /\ t >= MIN_EXPANDING_WEEKS
                    => audjpy_df[t].fear_z =
                         FDiv(SignedSq(FSub(audjpy_df[t].fear_level,
                                            SampleMean(LevelsTo(t)))),
                              SampleVar(LevelsTo(t)))

\* C4 happens: a defined dfear past the threshold, with later weeks whose
\* fear level differs from every level seen so far in the mean.
C4_Witness ==
    /\ pc = "returns"
    /\ \E t \in Rows :
        /\ t > MIN_EXPANDING_WEEKS /\ t < Len(audjpy_df)
        /\ audjpy_df[t].dfear # DiffNaN
        /\ SampleMean(LevelsTo(t)) # SampleMean(LevelsTo(Len(audjpy_df)))

NumWarnings == Cardinality({i \in DOMAIN warning_mask : warning_mask[i]})
\* floor(N * 0.10) and ceil(N * 0.10)
FloorShare(n) == (n * WARNING_QUANTILE[1]) \div WARNING_QUANTILE[2]
CeilShare(n) ==
    (n * WARNING_QUANTILE[1] + WARNING_QUANTILE[2] - 1) \div WARNING_QUANTILE[2]
EventStudyRun == pc \in {"regress1", "regress2", "done", "raised_regress1"}
\* the value after the ceil(N * 0.10) smallest ties with the last of them
TieAtQuantile ==
    LET srt == SortFloats(Col(aligned, "dfear"))
        c == CeilShare(Len(aligned))
    IN  c + 1 <= Len(aligned) /\ srt[c + 1] = srt[c]

EmptyEventLines ==
    << [line |-> "Event study (AUDJPY):", value |-> <<>>],
       [line |-> "Avg next-hw return | warning weeks", value |-> NaN],
       [line |-> "Hit rate (<0) | warning weeks", value |-> NaN],
       [line |-> "Avg next-hw return | non-warning", value |-> NaN] >>

\* C7 (as claimed): on an empty aligned table the run aborts and nothing has
\* been printed before the failure.
C7_NothingPrintedBeforeAbort ==
    (aligned = <<>> /\ pc = "raised_regress1") => out = <<>>

\* C7 (amended): on an empty aligned table the run aborts at the first
\* regression fit, never reaching the second; the four event-study lines,
\* with NaN statistics, are printed before the failure and no regression
\* line is.
C7_AbortsAfterEventStudyLines ==
    /\ pc = "raised_regress1" => (aligned = <<>> /\ out = EmptyEventLines)
    /\ aligned = <<>> => pc \in {"event_study", "regress1", "raised_regress1"}

\* C7 happens: the run has aborted on an empty aligned table.
C7_Witness == aligned = <<>> /\ pc = "raised_regress1"

\* C8: a row at or past the threshold whose fear levels so far have zero
\* standard deviation has a missing fear_z, no failure is raised, and the row
\* is not in the aligned table.
C8_ZeroStdGivesMissing ==
    \A i \in Rows :
        (HasCol(audjpy_df[i], "fear_z") /\ i >= MIN_EXPANDING_WEEKS
            /\ ZeroStdTo(i))
        => /\ IsNaN(audjpy_df[i].fear_z)
           /\ ~Raised
           /\ AlignedBuilt => audjpy_df[i].Date \notin Dates(aligned)

\* C8 happens: such a row, with its return and its target defined, after the
\* aligned table was built.
C8_Witness ==
    /\ pc = "event_study"
    /\ \E i \in Rows :
        /\ i >= MIN_EXPANDING_WEEKS
        /\ ZeroStdTo(i)
        /\ NotNa(audjpy_df[i].ret_total_w) /\ NotNa(audjpy_df[i].ret_next_h)

\* C6 (as claimed): in each of the three chains, no row of the frame that is
\* indexed by Date and resampled has a missing date.
C6_NoMissingDateIsIndexed ==
    \A chain \in {"spot", "pts", "rr"} : NaT \notin Dates(indexed[chain])

\* The quotes of week w in the forward-points file: the rows dated in week w
\* with a value, the first listed of each date.
PtsQuotes(w) ==
    {i \in DOMAIN fwdpts_df :
        /\ fwdpts_df[i].Date # NaT
        /\ WeekOf(fwdpts_df[i].Date) = w
        /\ NotNa(fwdpts_df[i].AUDJPY_1M_points_pips)
        /\ \A j \in 1..(i - 1) : fwdpts_df[j].Date # fwdpts_df[i].Date}
\* the value of the latest of the quotes S, NaN when there is none
LatestQuote(S) ==
    IF S = {} THEN NaN
    ELSE LET i == CHOOSE k \in S :
                    \A m \in S : fwdpts_df[m].Date <= fwdpts_df[k].Date
         IN  fwdpts_df[i].AUDJPY_1M_points_pips
NonZeroQuotes(w) ==
    {i \in PtsQuotes(w) : fwdpts_df[i].AUDJPY_1M_points_pips # Float(0)}
PointsZeroed ==
    pc \notin {"build_spot", "resample_spot", "parse_fwdpts",
               "resample_fwdpts", "zero_points", "raised_resample_fwdpts"}
Merged == PointsZeroed /\ pc \notin {"join_spot_points", "parse_rr",
                                      "resample_rr", "merge"}

\* C9 (as claimed): the weekly forward-points value of a week is its last
\* non-zero, non-missing quote, and a week of the grid is absent from the
\* merged table for lack of points only when it has no non-zero quote.
C9_ZerosDroppedBeforeResampling ==
    PointsZeroed =>
        \A k \in DOMAIN audjpy_pts_w :
            audjpy_pts_w[k].AUDJPY_1M_points_pips =
                LatestQuote(NonZeroQuotes(audjpy_pts_w[k].Date))

\* C9 (amended): the weekly forward-points value of a week is its last
\* non-missing quote, and is missing when that quote is 0, whatever earlier
\* quotes the week has; such a week is not in the merged table.
C9_ZerosDroppedAfterResampling ==
    PointsZeroed =>
        \A k \in DOMAIN audjpy_pts_w :
            LET latest == LatestQuote(PtsQuotes(audjpy_pts_w[k].Date))
            IN  /\ audjpy_pts_w[k].AUDJPY_1M_points_pips =
                     (IF latest = Float(0) THEN NaN ELSE latest)
                /\ (Merged /\ latest = Float(0))
                     => audjpy_pts_w[k].Date \notin Dates(audjpy_df)

\* C9 happens: a week whose last quote is 0 after a non-zero quote, past the
\* merge.
C9_Witness ==
    /\ Merged
    /\ \E k \in DOMAIN audjpy_pts_w :
        /\ LatestQuote(PtsQuotes(audjpy_pts_w[k].Date)) = Float(0)
        /\ NonZeroQuotes(audjpy_pts_w[k].Date) # {}

\* the weekly spot price of week w on the grid of audjpy_spot_w, NaN off it
GridSpot(w) ==
    IF w \in Dates(audjpy_spot_w) THEN RowAt(audjpy_spot_w, w).AUDJPY_spot
    ELSE NaN
\* the percentage change from b to a
Change(a, b) == FDiv(FSub(a, b), b)

\* C10 (as claimed): past the first row, ret_spot_w is the change of the
\* weekly spot price from the preceding calendar week of the grid (stated
\* where that week has a spot price); the first row's is missing.
C10_ReturnFromPrecedingWeek ==
    \A i \in Rows :
        HasCol(audjpy_df[i], "ret_spot_w")
        => /\ i = 1 => IsNaN(audjpy_df[i].ret_spot_w)
           /\ (i > 1 /\ NotNa(GridSpot(audjpy_df[i].Date - 1)))
                => audjpy_df[i].ret_spot_w =
                     Change(GridSpot(audjpy_df[i].Date),
                            GridSpot(audjpy_df[i].Date - 1))

\* C10 (amended): past the first row, ret_spot_w is the change of the weekly
\* spot price from the latest earlier week that is still in the merged
\* table, which is the preceding calendar week only when that week was not
\* removed; the first row's is missing.
C10_ReturnFromPrecedingRow ==
    \A i \in Rows :
        HasCol(audjpy_df[i], "ret_spot_w")
        => LET earlier == {w \in Dates(audjpy_df) : w < audjpy_df[i].Date}
           IN  /\ (i = 1) = (earlier = {})
               /\ audjpy_df[i].ret_spot_w =
                    (IF earlier = {} THEN NaN
                     ELSE Change(GridSpot(audjpy_df[i].Date),
                                 GridSpot(SetMax(earlier))))

\* C10 happens: a row whose preceding calendar week has a spot price on the
\* grid but was removed from the merged table.
C10_Witness ==
    \E i \in Rows :
        /\ HasCol(audjpy_df[i], "ret_spot_w")
        /\ i > 1
        /\ NotNa(GridSpot(audjpy_df[i].Date - 1))
        /\ audjpy_df[i].Date - 1 \notin Dates(audjpy_df)
        /\ NotNa(audjpy_df[i].ret_spot_w)

====
